---- MODULE Spec2Model ----
(***************************************************************************)
(* Worker-safety detection: the violation filter                           *)
(* (SafetyDetector.detect_violations) and the frame loop with its alert    *)
(* cooldown (SafetyDetector.process_video), together with the two          *)
(* collaborators the loop calls on a violation frame                       *)
(* (save_violation_screenshot, send_violation_alert).                      *)
(*                                                                         *)
(* Time is counted in clock ticks (the resolution of datetime.now());      *)
(* confidences are counted in levels, only their order matters.            *)
(***************************************************************************)
EXTENDS Integers, Sequences, FiniteSets

\* ------------------------------------------------------------------ bounds
MaxFrames == 3
MaxTime == 3
MaxInterval == 2
MaxConf == 2
MaxBBox == 1
MaxBoxes == 2
MaxResults == 2
MaxFrameBoxes == 1

\* ------------------------------------------------------------ value spaces
\* self.last_alert_time = None; also the value of a local not yet read.
None == -1

\* result.names: class id -> class name of the loaded model.
Names == <<"no_helmet", "person">>

ClassIds == 1..Len(Names)
ConfLevels == 0..MaxConf
Times == 0..MaxTime

\* One detected box: box.cls[0], box.conf[0], box.xyxy[0].
BoxSet == [cls : ClassIds, conf : ConfLevels, xyxy : 1..MaxBBox]

\* Sequences over S of length at most n.
SeqUpTo(S, n) == UNION {[1..k -> S] : k \in 0..n}

\* The ways to cut the boxes of flat into k consecutive groups, one group per
\* result object (a group may be empty).
RECURSIVE SplitsOf(_, _)
SplitsOf(flat, k) ==
    IF k = 0 THEN (IF flat = <<>> THEN {<<>>} ELSE {})
    ELSE UNION {{<<SubSeq(flat, 1, i)>> \o rest :
                    rest \in SplitsOf(SubSeq(flat, i + 1, Len(flat)), k - 1)} :
                i \in 0..Len(flat)}

\* The boxes of a list of result objects, in the order the loops visit them.
RECURSIVE Flatten(_)
Flatten(rs) == IF rs = <<>> THEN <<>> ELSE Head(rs) \o Flatten(Tail(rs))

\* What self.model(frame) returns inside the loop: one result object for the
\* one frame.
FrameResultsSet ==
    {<<bs>> : bs \in SeqUpTo([cls : ClassIds, conf : ConfLevels, xyxy : {1}],
                              MaxFrameBoxes)}

\* The keys of self.config the loop and the filter read.
ConfigSet ==
    [violation_classes : SUBSET {Names[i] : i \in ClassIds},
     confidence_threshold : ConfLevels,
     save_screenshots : BOOLEAN,
     enable_alerts : BOOLEAN,
     min_time_between_alerts : 0..MaxInterval]

\* Configurations of the frame loop. The loop reads the filter keys only
\* through detect_violations, which SpecFilter explores over all of ConfigSet.
LoopConfigSet == {c \in ConfigSet : c.confidence_threshold = 1}

VARIABLES
    config,             \* self.config
    last_alert_time,    \* self.last_alert_time
    min_alert_interval, \* self.min_alert_interval
    pc,                 \* position of process_video
    frame_count,        \* frame_count
    results,            \* results
    violations,         \* violations
    screenshot_path,    \* the local screenshot_path: "unbound", "none", "path"
    current_time,       \* current_time
    authorized,         \* outcome of the cooldown condition of this frame
    send_outcome,       \* what send_violation_alert did on this frame
    steps,              \* the steps taken on the current frame, in order
    dispatches          \* the check times of all authorized dispatches

vars == <<config, last_alert_time, min_alert_interval, pc, frame_count,
          results, violations, screenshot_path, current_time, authorized,
          send_outcome, steps, dispatches>>

\* ------------------------------------------------------ detect_violations
\* The dict appended for a qualifying box.
ViolationOf(box) ==
    [class |-> Names[box.cls], confidence |-> box.conf, bbox |-> box.xyxy]

KeepBox_StrictDropped(box, cfg) ==
    /\ Names[box.cls] \in cfg.violation_classes
    /\ box.conf >= cfg.confidence_threshold

\* The condition of the if inside the two loops.
KeepBox(box, cfg) ==
    /\ Names[box.cls] \in cfg.violation_classes
    /\ box.conf > cfg.confidence_threshold

\* for box in boxes: ... violations.append(...)
RECURSIVE ScanBoxes(_, _, _)
ScanBoxes(boxes, cfg, acc) ==
    IF boxes = <<>> THEN acc
    ELSE ScanBoxes(Tail(boxes), cfg,
                   IF KeepBox(Head(boxes), cfg)
                   THEN Append(acc, ViolationOf(Head(boxes)))
                   ELSE acc)

\* for result in results: ...
RECURSIVE ScanResults(_, _, _)
ScanResults(rs, cfg, acc) ==
    IF rs = <<>> THEN acc
    ELSE ScanResults(Tail(rs), cfg, ScanBoxes(Head(rs), cfg, acc))

detect_violations(rs, cfg) == ScanResults(rs, cfg, <<>>)

\* ---------------------------------------------------------- process_video
CooldownElapsed_NonStrict(now, last, interval) ==
    last = None \/ (now - last) >= interval

CooldownElapsed_Swapped(now, last, interval) ==
    last = None \/ (last - now) > interval

\* self.last_alert_time is None or
\* (current_time - self.last_alert_time) > self.min_alert_interval
CooldownElapsed(now, last, interval) ==
    last = None \/ (now - last) > interval

HasViolations_Always(v) == TRUE

\* if violations:
HasViolations(v) == v # <<>>

Init ==
    /\ config \in LoopConfigSet
    /\ last_alert_time = None
    /\ min_alert_interval = config.min_time_between_alerts
    /\ pc = "read"
    /\ frame_count = 0
    /\ results = <<>>
    /\ violations = <<>>
    /\ screenshot_path = "unbound"
    /\ current_time = None
    /\ authorized = FALSE
    /\ send_outcome = "none"
    /\ steps = <<>>
    /\ dispatches = <<>>

\* ret, frame = cap.read() with ret true; frame_count += 1.
ReadFrame ==
    /\ pc = "read"
    /\ frame_count < MaxFrames
    /\ frame_count' = frame_count + 1
    /\ pc' = "detect"
    /\ authorized' = FALSE
    /\ send_outcome' = "none"
    /\ steps' = <<>>
    /\ UNCHANGED <<config, last_alert_time, min_alert_interval, results,
                   violations, screenshot_path, current_time, dispatches>>

\* cap.read() with ret false: break, then the cleanup.
EndOfStream ==
    /\ pc = "read"
    /\ pc' = "done"
    /\ UNCHANGED <<config, last_alert_time, min_alert_interval, frame_count,
                   results, violations, screenshot_path, current_time,
                   authorized, send_outcome, steps, dispatches>>

\* results = self.model(frame, conf=...)
RunDetection ==
    /\ pc = "detect"
    /\ results' \in FrameResultsSet
    /\ pc' = "filter"
    /\ steps' = Append(steps, "detect")
    /\ UNCHANGED <<config, last_alert_time, min_alert_interval, frame_count,
                   violations, screenshot_path, current_time, authorized,
                   send_outcome, dispatches>>

\* violations = self.detect_violations(results); draw_boxes; if violations:
Filter ==
    /\ pc = "filter"
    /\ violations' = detect_violations(results, config)
    /\ pc' = IF HasViolations(violations') THEN "screenshot" ELSE "output"
    /\ steps' = Append(steps, "filter")
    /\ UNCHANGED <<config, last_alert_time, min_alert_interval, frame_count,
                   results, screenshot_path, current_time, authorized,
                   send_outcome, dispatches>>

SaveScreenshot_Skipped ==
    /\ pc = "screenshot"
    /\ config.save_screenshots
    /\ pc' = "alerts"
    /\ UNCHANGED <<config, last_alert_time, min_alert_interval, frame_count,
                   results, violations, screenshot_path, current_time,
                   authorized, send_outcome, steps, dispatches>>

\* if save_screenshots: screenshot_path = save_violation_screenshot(...),
\* which returns the path when cv2.imwrite succeeds and None when it fails.
SaveScreenshot ==
    /\ pc = "screenshot"
    /\ config.save_screenshots
    /\ \E success \in BOOLEAN :
          screenshot_path' = IF success THEN "path" ELSE "none"
    /\ pc' = "alerts"
    /\ steps' = Append(steps, "screenshot")
    /\ UNCHANGED <<config, last_alert_time, min_alert_interval, frame_count,
                   results, violations, current_time, authorized,
                   send_outcome, dispatches>>

\* save_screenshots is false: the assignment to screenshot_path is not run.
NoScreenshot ==
    /\ pc = "screenshot"
    /\ ~config.save_screenshots
    /\ pc' = "alerts"
    /\ UNCHANGED <<config, last_alert_time, min_alert_interval, frame_count,
                   results, violations, screenshot_path, current_time,
                   authorized, send_outcome, steps, dispatches>>

\* enable_alerts is false: nothing of the alert block runs.
AlertsDisabled ==
    /\ pc = "alerts"
    /\ ~config.enable_alerts
    /\ pc' = "output"
    /\ UNCHANGED <<config, last_alert_time, min_alert_interval, frame_count,
                   results, violations, screenshot_path, current_time,
                   authorized, send_outcome, steps, dispatches>>

CooldownCheck_UpdateAlways ==
    /\ pc = "alerts"
    /\ config.enable_alerts
    /\ \E now \in Times :
          /\ current_time' = now
          /\ authorized' =
                CooldownElapsed(now, last_alert_time, min_alert_interval)
          /\ last_alert_time' = now
    /\ pc' = IF authorized' THEN "send" ELSE "output"
    /\ dispatches' =
          IF authorized' THEN Append(dispatches, current_time')
          ELSE dispatches
    /\ steps' = Append(steps, "cooldown")
    /\ UNCHANGED <<config, min_alert_interval, frame_count, results,
                   violations, screenshot_path, send_outcome>>

\* current_time = datetime.now(); the cooldown condition. datetime.now() is
\* the wall clock: any reading may follow any other.
CooldownCheck ==
    /\ pc = "alerts"
    /\ config.enable_alerts
    /\ \E now \in Times :
          /\ current_time' = now
          /\ authorized' =
                CooldownElapsed(now, last_alert_time, min_alert_interval)
    /\ pc' = IF authorized' THEN "send" ELSE "output"
    /\ dispatches' =
          IF authorized' THEN Append(dispatches, current_time')
          ELSE dispatches
    /\ steps' = Append(steps, "cooldown")
    /\ UNCHANGED <<config, last_alert_time, min_alert_interval, frame_count,
                   results, violations, screenshot_path, send_outcome>>

\* What send_violation_alert can do with the given image_path. Without an
\* image that exists nothing is sent; every exception is caught and printed.
SendOutcomes(image_path, v) ==
    IF v = <<>> THEN {"no_violations"}
    ELSE IF image_path = "path"
    THEN {"photo_sent", "screenshot_not_found", "telegram_error",
          "file_not_found", "unexpected_error"}
    ELSE {"screenshot_not_found", "telegram_error", "unexpected_error"}

SendAlert_NoUpdate ==
    /\ pc = "send"
    /\ screenshot_path # "unbound"
    /\ send_outcome' \in SendOutcomes(screenshot_path, violations)
    /\ pc' = "output"
    /\ steps' = Append(steps, "send")
    /\ UNCHANGED <<config, last_alert_time, min_alert_interval, frame_count,
                   results, violations, screenshot_path, current_time,
                   authorized, dispatches>>

\* asyncio.run(send_violation_alert(..., screenshot_path, violations));
\* self.last_alert_time = current_time
SendAlert ==
    /\ pc = "send"
    /\ screenshot_path # "unbound"
    /\ send_outcome' \in SendOutcomes(screenshot_path, violations)
    /\ last_alert_time' = current_time
    /\ pc' = "output"
    /\ steps' = Append(steps, "send")
    /\ UNCHANGED <<config, min_alert_interval, frame_count, results,
                   violations, screenshot_path, current_time, authorized,
                   dispatches>>

\* The same call when screenshot_path was never assigned: reading the local
\* raises UnboundLocalError, which nothing in process_video catches.
SendAlertUnbound ==
    /\ pc = "send"
    /\ screenshot_path = "unbound"
    /\ pc' = "error"
    /\ UNCHANGED <<config, last_alert_time, min_alert_interval, frame_count,
                   results, violations, screenshot_path, current_time,
                   authorized, send_outcome, steps, dispatches>>

\* out.write / cv2.imshow, then back to the head of the loop.
WriteOutput ==
    /\ pc = "output"
    /\ pc' = "read"
    /\ UNCHANGED <<config, last_alert_time, min_alert_interval, frame_count,
                   results, violations, screenshot_path, current_time,
                   authorized, send_outcome, steps, dispatches>>

Next ==
    \/ ReadFrame
    \/ EndOfStream
    \/ RunDetection
    \/ Filter
    \/ SaveScreenshot
    \/ NoScreenshot
    \/ AlertsDisabled
    \/ CooldownCheck
    \/ SendAlert
    \/ SendAlertUnbound
    \/ WriteOutput

Spec == Init /\ [][Next]_vars

\* ------------------------------------- the filter alone, over all inputs
\* detect_violations applied to any list of at most MaxResults result objects
\* holding at most MaxBoxes boxes in all, under any filter configuration.
InitFilter ==
    /\ config \in {c \in ConfigSet :
                      /\ c.save_screenshots
                      /\ c.enable_alerts
                      /\ c.min_time_between_alerts = 0}
    /\ last_alert_time = None
    /\ min_alert_interval = config.min_time_between_alerts
    /\ pc = "filter"
    /\ frame_count = 1
    /\ \E flat \in SeqUpTo(BoxSet, MaxBoxes), k \in 0..MaxResults :
          results \in SplitsOf(flat, k)
    /\ violations = <<>>
    /\ screenshot_path = "unbound"
    /\ current_time = None
    /\ authorized = FALSE
    /\ send_outcome = "none"
    /\ steps = <<"detect">>
    /\ dispatches = <<>>

NextFilter == Filter

SpecFilter == InitFilter /\ [][NextFilter]_vars

\* ------------------------------------------------------------ properties
\* The last step taken on the current frame.
LastStepIs(s) == steps # <<>> /\ steps[Len(steps)] = s

StepTaken(s) == \E i \in DOMAIN steps : steps[i] = s

\* C1: no two authorized dispatches have check times less than
\* min_alert_interval apart. The clock readings range over every sequence,
\* the non-decreasing ones included.
C1_MinSpacing ==
    \A i, j \in DOMAIN dispatches :
        i < j =>
            ~ /\ dispatches[j] - dispatches[i] < min_alert_interval
              /\ dispatches[i] - dispatches[j] < min_alert_interval

C1_Witness ==
    /\ Len(dispatches) >= 2
    /\ min_alert_interval > 0
    /\ LastStepIs("send")

\* C2: the cooldown condition at time current_time is true exactly when
\* last_alert_time is None or current_time - last_alert_time is strictly
\* greater than min_alert_interval; a check exactly min_alert_interval after
\* the last alert is suppressed, one tick later it is authorized.
C2_StrictCooldown ==
    LastStepIs("cooldown") =>
        /\ last_alert_time = None => authorized
        /\ last_alert_time # None =>
              /\ current_time - last_alert_time <= min_alert_interval
                    => ~authorized
              /\ current_time - last_alert_time >= min_alert_interval + 1
                    => authorized

C2_Witness ==
    /\ LastStepIs("cooldown")
    /\ last_alert_time # None
    /\ min_alert_interval > 0
    /\ current_time - last_alert_time = min_alert_interval
    /\ ~authorized

\* C3: detect_violations returns exactly the boxes whose class name is in
\* violation_classes and whose confidence is strictly above the threshold,
\* as dicts, in the order of the input.
C3_FilterExact ==
    pc # "filter" =>
        LET flat == Flatten(results)
            kept == {i \in DOMAIN flat :
                        /\ Names[flat[i].cls] \in config.violation_classes
                        /\ flat[i].conf > config.confidence_threshold}
        IN  /\ Len(violations) = Cardinality(kept)
            /\ \E f \in [DOMAIN violations -> kept] :
                  /\ \A a, b \in DOMAIN violations : a < b => f[a] < f[b]
                  /\ \A a \in DOMAIN violations :
                        /\ violations[a].class = Names[flat[f[a]].cls]
                        /\ violations[a].confidence = flat[f[a]].conf
                        /\ violations[a].bbox = flat[f[a]].xyxy

C3_Witness ==
    /\ pc # "filter"
    /\ Len(results) = 2
    /\ Len(results[1]) = 1
    /\ Len(results[2]) = 1
    /\ Len(violations) = 1
    /\ Names[results[1][1].cls] \in config.violation_classes
    /\ results[1][1].conf = config.confidence_threshold
    /\ violations[1].confidence = results[2][1].conf

\* C4: once the cooldown condition has authorized a dispatch at
\* current_time and the send statement is over, last_alert_time is
\* current_time.
C4_UpdateOnAuthorize ==
    (authorized /\ pc # "send") => last_alert_time = current_time

\* C5: process_video never ends in an error state.
C5_NoErrorState == pc # "error"

\* C6: when the screenshot writer returned None and the dispatch was
\* authorized, the notification is not dropped for lack of an image.
C6_SentWithoutImage ==
    (LastStepIs("send") /\ screenshot_path = "none") =>
        send_outcome # "screenshot_not_found"

\* C7: every update of last_alert_time replaces it with a value greater than
\* or equal to the previous one, whatever the clock reads.
C7_Monotone ==
    [][(last_alert_time' # last_alert_time /\ last_alert_time # None)
          => last_alert_time' >= last_alert_time]_vars

C7_Witness ==
    /\ Len(dispatches) >= 2
    /\ LastStepIs("send")
    /\ last_alert_time = dispatches[Len(dispatches)]
    /\ last_alert_time > dispatches[1]

\* C8: last_alert_time changes only in the send step of a violation frame
\* whose cooldown condition was true with alerts enabled, and then to
\* current_time; min_alert_interval never changes.
C8_OnlyAuthorizedDispatch ==
    [][/\ last_alert_time' # last_alert_time =>
             /\ pc = "send"
             /\ authorized
             /\ config.enable_alerts
             /\ violations # <<>>
             /\ last_alert_time' = current_time
       /\ min_alert_interval' = min_alert_interval]_vars

C8_Witness ==
    /\ pc = "output"
    /\ LastStepIs("cooldown")
    /\ ~authorized
    /\ last_alert_time # None
    /\ last_alert_time # current_time

\* C9: the screenshot save, the cooldown check and the send happen only on
\* a frame whose violation list is non-empty, and send_violation_alert is
\* never called with an empty list.
C9_NonEmptyEvent ==
    /\ (\/ pc \in {"screenshot", "alerts", "send", "error"}
        \/ StepTaken("screenshot")
        \/ StepTaken("cooldown")
        \/ StepTaken("send")) => violations # <<>>
    /\ send_outcome # "no_violations"

C9_Witness ==
    /\ LastStepIs("send")
    /\ send_outcome = "photo_sent"
    /\ Len(violations) = 1

\* The order of the steps of one frame, as the code has it and as the
\* specification text has it.
RankCode(s) ==
    CASE s = "detect" -> 1
      [] s = "filter" -> 2
      [] s = "screenshot" -> 3
      [] s = "cooldown" -> 4
      [] s = "send" -> 5

RankText(s) ==
    CASE s = "detect" -> 1
      [] s = "filter" -> 2
      [] s = "cooldown" -> 3
      [] s = "screenshot" -> 4
      [] s = "send" -> 5

StepsOrdered(Rank(_)) ==
    \A i, j \in DOMAIN steps : i < j => Rank(steps[i]) < Rank(steps[j])

\* Every step the frame calls for has been taken.
FrameComplete ==
    /\ Len(steps) >= 2
    /\ steps[1] = "detect"
    /\ steps[2] = "filter"
    /\ (violations # <<>> /\ config.save_screenshots) => StepTaken("screenshot")
    /\ (violations # <<>> /\ config.enable_alerts) => StepTaken("cooldown")
    /\ authorized => StepTaken("send")

\* The cooldown check sees the time of the latest authorized dispatch.
UpdateSeenByNextCheck ==
    pc = "alerts" =>
        last_alert_time =
            IF dispatches = <<>> THEN None ELSE dispatches[Len(dispatches)]

FrameDoneBeforeNextRead ==
    (pc \in {"read", "done"} /\ frame_count > 0) => FrameComplete

\* C10 as stated: each frame is fully processed before the next is read, the
\* steps of a frame run in the order detect, filter, rate-limit decision,
\* screenshot write, dispatch, and the update of one frame is applied before
\* the next frame's cooldown check.
C10_TextOrder ==
    /\ StepsOrdered(RankText)
    /\ FrameDoneBeforeNextRead
    /\ UpdateSeenByNextCheck

\* C10 amended: the same with the order detect, filter, screenshot write,
\* rate-limit decision, dispatch.
C10_CodeOrder ==
    /\ StepsOrdered(RankCode)
    /\ FrameDoneBeforeNextRead
    /\ UpdateSeenByNextCheck

C10_Witness ==
    /\ steps = <<"detect", "filter", "screenshot", "cooldown", "send">>
    /\ frame_count >= 2
    /\ Len(dispatches) >= 2
    /\ pc = "read"

====
